---- MODULE Spec2Model ----
(***************************************************************************)
(* Model of the data-access layer of movie_rest_orm_api (src/crud.py) as   *)
(* it is called by the routes of src/main.py.                              *)
(*                                                                         *)
(* The store is the relational state the crud functions read and write:    *)
(* the rows of Movie, the rows of Star, the director reference of each     *)
(* Movie and the rows of the association behind Movie.actors.  With one    *)
(* request served at a time, every crud function that commits is one       *)
(* action, and every crud function that only reads is an operator over the *)
(* store plus an action that records what the call produced.  With         *)
(* requests served concurrently (CONCURRENT REQUESTS below), each request  *)
(* has its session and a committing crud function is two steps.            *)
(*                                                                         *)
(* Optional values (Python None / SQL NULL) are sequences of length <= 1:  *)
(* None is <<>>, a present value v is <<v>>.                               *)
(***************************************************************************)
EXTENDS Integers, Sequences, FiniteSets

VARIABLES
    movies,       \* id -> row of Movie (title, year, duration, director_id), existing rows only
    stars,        \* id -> row of Star (name, birthdate), existing rows only
    actors,       \* <<movie id, star id>> -> number of rows of the Movie.actors association
    nextMovieId,  \* next id the store generates for a Movie
    nextStarId,   \* next id the store generates for a Star
    last,         \* the last crud call: its name, arguments, return value, and whether it raised
    requests,     \* request -> where it is in its route, its session, what its session loaded
    sessions      \* the sessions made by SessionLocal() for the requests, in order of creation

store == <<movies, stars, actors, nextMovieId, nextStarId>>
vars == <<movies, stars, actors, nextMovieId, nextStarId, last, requests, sessions>>

-----------------------------------------------------------------------------
(* Bounds of the explored runs.                                            *)

MaxMovies == 2    \* Movies created in a run (ids 1..MaxMovies)
MaxStars == 2     \* Stars created in a run (ids 1..MaxStars)
MaxCast == 2      \* rows of the Movie.actors association at any time
MaxIds == 2       \* length of the star_ids list given to update_movie_actors
MaxRequests == 2  \* requests that are served concurrently

MovieIds == 1..MaxMovies
StarIds == 1..MaxStars
Requests == 1..MaxRequests

None == <<>>
Some(v) == <<v>>

\* Titles are sequences of characters, so that LIKE patterns can be matched.
MovieInputs ==
    { [title |-> <<"b", "a">>, year |-> 2010, duration |-> Some(148)],
      [title |-> <<"a", "b">>, year |-> 2011, duration |-> None] }

StarInputs ==
    { [name |-> "Nolan", birthdate |-> Some("1970-07-30")],
      [name |-> "DiCaprio", birthdate |-> None] }

\* Payloads for the statistics and for concurrent updates: two Films of one year
\* with different durations, and one of that year with no duration.
MoviePayloads ==
    MovieInputs \cup
        { [title |-> <<"a", "b">>, year |-> 2010, duration |-> Some(120)],
          [title |-> <<"b", "a">>, year |-> 2010, duration |-> None] }

\* Thresholds given to the statistics by director.
MinCounts == 0..3

\* Selectors given to the title lookup of the cast listing.
EndNames == { <<"a">>, <<"b">> }

\* Bounds given to the year range query (None: bound absent).  The route
\* takes them as numbers and compares them with Movie.year; whole years here.
YearBounds == { None, Some(2010), Some(2011) }

\* star_ids lists: every sequence over StarIds of length 0..MaxIds.
StarIdLists == UNION { [1..n -> StarIds] : n \in 0..MaxIds }

-----------------------------------------------------------------------------
(* Sequence helpers.                                                       *)

Range(s) == { s[i] : i \in 1..Len(s) }

Count(x, s) == Cardinality({ i \in 1..Len(s) : s[i] = x })

RECURSIVE Repeat(_, _)
Repeat(x, n) == IF n = 0 THEN <<>> ELSE <<x>> \o Repeat(x, n - 1)

\* Ascending sequence of a finite set of integers (the store's natural order of ids).
RECURSIVE Ascending(_)
Ascending(S) ==
    IF S = {} THEN <<>>
    ELSE LET m == CHOOSE x \in S : \A y \in S : x <= y
         IN  <<m>> \o Ascending(S \ {m})

-----------------------------------------------------------------------------
(* SQL predicates.                                                         *)

\* s LIKE p: "%" matches any run of characters, "_" any one character.
RECURSIVE Like(_, _)
Like(s, p) ==
    IF p = <<>> THEN s = <<>>
    ELSE IF Head(p) = "%" THEN Like(s, Tail(p)) \/ (s # <<>> /\ Like(Tail(s), p))
    ELSE /\ s # <<>>
         /\ (Head(p) = "_" \/ Head(p) = Head(s))
         /\ Like(Tail(s), Tail(p))

\* The pattern the cast-by-title lookup builds from its argument: f'%{endname}%'.
EndnamePattern(endname) == <<"%">> \o endname \o <<"%">>

\* Star.id.in_(star_ids): membership in the listed values.
IdIn(id, star_ids) == id \in Range(star_ids)

-----------------------------------------------------------------------------
(* Entities as the session hands them back.                                *)

MovieEntity(id, row) ==
    [id |-> id, title |-> row.title, year |-> row.year,
     duration |-> row.duration, director_id |-> row.director_id]

StarEntity(id, row) == [id |-> id, name |-> row.name, birthdate |-> row.birthdate]

MovieOf(id) == MovieEntity(id, movies[id])

StarOf(id) == StarEntity(id, stars[id])

\* What a call produced: a returned value, or an exception leaving the function.
Returned(v) == [ret |-> v, raised |-> FALSE]
Raised == [ret |-> None, raised |-> TRUE]

\* Query.all() on a single mapped entity: each entity once, at its first row.
RECURSIVE Unique(_)
Unique(s) ==
    IF s = <<>> THEN <<>>
    ELSE LET r == Unique(SubSeq(s, 1, Len(s) - 1))
         IN  IF s[Len(s)] \in Range(r) THEN r ELSE Append(r, s[Len(s)])

-----------------------------------------------------------------------------
(* Read-only crud functions, as operators over the store.  A query that    *)
(* returns a list of Movies or Stars is the sequence of their ids, in the  *)
(* order of the result; a query that returns one entity gives its fields.  *)

get_movie(movie_id) ==
    IF movie_id \in DOMAIN movies THEN Some(MovieOf(movie_id)) ELSE None

get_star(star_id) ==
    IF star_id \in DOMAIN stars THEN Some(StarOf(star_id)) ELSE None

\* Variant: with both bounds absent the query is left unfiltered.
get_movies_by_range_year_unfiltered(year_min, year_max) ==
    Some(Ascending({ m \in DOMAIN movies :
                        /\ (year_min # None => movies[m].year >= year_min[1])
                        /\ (year_max # None => movies[m].year <= year_max[1]) }))

get_movies_by_range_year(year_min, year_max) ==
    IF year_min = None /\ year_max = None THEN None
    ELSE IF year_min = None THEN
        Some(Ascending({ m \in DOMAIN movies : movies[m].year <= year_max[1] }))
    ELSE IF year_max = None THEN
        Some(Ascending({ m \in DOMAIN movies : movies[m].year >= year_min[1] }))
    ELSE
        Some(Ascending({ m \in DOMAIN movies :
                            movies[m].year >= year_min[1] /\ movies[m].year <= year_max[1] }))

\* Rows of Movie JOIN Movie.director: the Movies whose director_id names a Star row.
MovieJoinDirector ==
    { m \in DOMAIN movies :
        movies[m].director_id # None /\ movies[m].director_id[1] \in DOMAIN stars }

get_director_by_movie_id(movie_id) ==
    LET movie_director ==      \* .first() of the filtered join: a row or None
            IF movie_id \in MovieJoinDirector THEN Some(movie_id) ELSE None
    IN  IF movie_director = None
        THEN Raised            \* None.director: AttributeError
        ELSE Returned(Some(StarOf(movies[movie_director[1]].director_id[1])))

\* Rows of Star JOIN Movie.actors, restricted to the Movies in M: the pairs
\* <<movie, star>> of the association whose two ends exist.
ActorRows(M) ==
    { r \in DOMAIN actors : actors[r] > 0 /\ r[1] \in M /\ r[1] \in DOMAIN movies
                                /\ r[2] \in DOMAIN stars }

\* ORDER BY Movie.year DESC; rows of equal year come in id order.
RowBefore(r1, r2) ==
    \/ movies[r1[1]].year > movies[r2[1]].year
    \/ /\ movies[r1[1]].year = movies[r2[1]].year
       /\ (r1[1] < r2[1] \/ (r1[1] = r2[1] /\ r1[2] <= r2[2]))

\* The Star of each row, one per row of the association, in ORDER BY order.
RECURSIVE StarsOfRows(_)
StarsOfRows(R) ==
    IF R = {} THEN <<>>
    ELSE LET r == CHOOSE x \in R : \A y \in R : RowBefore(x, y)
         IN  Repeat(r[2], actors[r]) \o StarsOfRows(R \ {r})

get_actors_by_movie_endname(endname) ==
    Unique(StarsOfRows(ActorRows(
        { m \in DOMAIN movies : Like(movies[m].title, EndnamePattern(endname)) })))

\* Variant: one Star per row of the association, rows not made unique.
get_actors_by_movie_id_rows(movie_id) ==
    StarsOfRows(ActorRows({ m \in DOMAIN movies : m = movie_id }))

get_actors_by_movie_id(movie_id) ==
    Unique(StarsOfRows(ActorRows({ m \in DOMAIN movies : m = movie_id })))

-----------------------------------------------------------------------------
(* STATISTICS                                                              *)

get_movies_count == Cardinality(DOMAIN movies)

\* GROUP BY Movie.year: the years that have a row, and the rows of one year.
Years == { movies[m].year : m \in DOMAIN movies }
MoviesOfYear(year) == { m \in DOMAIN movies : movies[m].year = year }

\* An aggregate over Movie.duration skips the rows where it is NULL.
Durations(M) == { movies[m].duration[1] : m \in { x \in M : movies[x].duration # None } }

\* func.min / func.max: NULL when every duration of the group is NULL.
MinDuration(M) ==
    IF Durations(M) = {} THEN None
    ELSE Some(CHOOSE d \in Durations(M) : \A e \in Durations(M) : d <= e)

MaxDuration(M) ==
    IF Durations(M) = {} THEN None
    ELSE Some(CHOOSE d \in Durations(M) : \A e \in Durations(M) : d >= e)

RECURSIVE SumDuration(_)
SumDuration(M) ==
    IF M = {} THEN 0
    ELSE LET m == CHOOSE x \in M : TRUE
         IN  (IF movies[m].duration = None THEN 0 ELSE movies[m].duration[1])
                 + SumDuration(M \ {m})

\* func.avg: the sum of the non-NULL durations over their number, kept as the
\* exact quotient <<sum, number>>; NULL when there is none.
AvgDuration(M) ==
    LET n == Cardinality({ m \in M : movies[m].duration # None })
    IN  IF n = 0 THEN None ELSE Some(<<SumDuration(M), n>>)

\* ORDER BY Movie.year over the groups: one row per year, in ascending order.
OrderedBy(S, row) == [i \in 1..Cardinality(S) |-> row[Ascending(S)[i]]]

\* Variant: the rows are counted by their duration (count(duration)), which
\* leaves out the rows where it is NULL.
get_movies_stats_by_year_count_duration ==
    LET row == [year \in Years |->
                   LET M == MoviesOfYear(year)
                   IN  << year, Cardinality({ m \in M : movies[m].duration # None }),
                          MinDuration(M), MaxDuration(M), AvgDuration(M) >>]
    IN  OrderedBy(Years, row)

\* Rows (year, count, min, max, avg), ordered by year.
get_movies_stats_by_year ==
    LET row == [year \in Years |->
                   LET M == MoviesOfYear(year)
                   IN  << year, Cardinality(M), MinDuration(M), MaxDuration(M),
                          AvgDuration(M) >>]
    IN  OrderedBy(Years, row)

\* The query selects (year, count, max, min, avg); each row is unpacked in that
\* position order into y, mc, mid, mxd, ad and put in the dictionary under
\* min_duration |-> mid, max_duration |-> mxd.
get_movies_stats_by_year_dict ==
    LET query == [year \in Years |->
                     LET M == MoviesOfYear(year)
                     IN  << year, Cardinality(M), MaxDuration(M), MinDuration(M),
                            AvgDuration(M) >>]
        entry == [year \in Years |->
                     LET y == query[year][1]
                         mc == query[year][2]
                         mid == query[year][3]
                         mxd == query[year][4]
                         ad == query[year][5]
                     IN  [year |-> y, movie_count |-> mc, min_duration |-> mid,
                          max_duration |-> mxd, avg_duration |-> ad]]
    IN  OrderedBy(Years, entry)

\* Rows of Star JOIN Movie.director grouped by Star: the Movies a Star directs.
DirectedBy(star_id) ==
    { m \in MovieJoinDirector : movies[m].director_id[1] = star_id }

\* ORDER BY movie_count DESC over a set of Stars; Stars of equal count in id order.
RECURSIVE DescByCount(_, _)
DescByCount(S, n) ==
    IF S = {} THEN <<>>
    ELSE LET s == CHOOSE x \in S :
                    \A y \in S : n[x] > n[y] \/ (n[x] = n[y] /\ x <= y)
         IN  <<s>> \o DescByCount(S \ {s}, n)

\* Variant: an outer join from Star, so that a Star that directs nothing is a
\* group of count 0.
get_stats_movie_by_director_outer(min_count) ==
    LET movie_count == [s \in DOMAIN stars |-> Cardinality(DirectedBy(s))]
        groups == DOMAIN stars
        kept == DescByCount({ s \in groups : movie_count[s] >= min_count }, movie_count)
    IN  [i \in 1..Len(kept) |-> <<StarOf(kept[i]), movie_count[kept[i]]>>]

\* Rows (Star, movie_count): the inner join leaves a group only for a Star that
\* directs a Movie; HAVING keeps the groups of count >= min_count.
get_stats_movie_by_director(min_count) ==
    LET movie_count == [s \in DOMAIN stars |-> Cardinality(DirectedBy(s))]
        groups == { s \in DOMAIN stars : DirectedBy(s) # {} }
        kept == DescByCount({ s \in groups : movie_count[s] >= min_count }, movie_count)
    IN  [i \in 1..Len(kept) |-> <<StarOf(kept[i]), movie_count[kept[i]]>>]

-----------------------------------------------------------------------------
(* The store after construction, and helpers of the committing functions.  *)

NoMovies == [m \in {} |-> None]
NoStars == [s \in {} |-> None]

\* A request that has not arrived.
Idle ==
    [pc |-> "idle", op |-> "none", args |-> <<>>, db |-> 0,
     loaded |-> None, ret |-> None, exc |-> "none", order |-> 0]

\* No request is being served and no session is open.
NoRequests ==
    /\ requests = [r \in Requests |-> Idle]
    /\ sessions = <<>>

Init ==
    /\ NoRequests
    /\ movies = NoMovies
    /\ stars = NoStars
    /\ actors = [r \in MovieIds \X StarIds |-> 0]
    /\ nextMovieId = 1
    /\ nextStarId = 1
    /\ last = [op |-> "start", args |-> <<>>, ret |-> None, raised |-> FALSE]

\* The call's outcome, as the route that made the call sees it.
Reply(op, args, r) ==
    /\ last' = [op |-> op, args |-> args, ret |-> r.ret, raised |-> r.raised]
    /\ UNCHANGED <<requests, sessions>>

\* A call that commits nothing.
Call(op, args, r) == Reply(op, args, r) /\ UNCHANGED store

RECURSIVE SumOver(_, _)
SumOver(f, S) ==
    IF S = {} THEN 0
    ELSE LET x == CHOOSE y \in S : TRUE IN f[x] + SumOver(f, S \ {x})

\* Number of rows of the association.
CastRows(a) == SumOver(a, DOMAIN a)

\* The store generates the id of an inserted row: ids grow and are not reissued.
GeneratedMovieId == nextMovieId
GeneratedStarId == nextStarId

\* Is the Star referenced by a director_id or by a row of the association?
Referenced(star_id) ==
    \/ \E m \in DOMAIN movies : movies[m].director_id = Some(star_id)
    \/ \E r \in DOMAIN actors : r[2] = star_id /\ actors[r] > 0

\* Deleting a Star that a Movie still references: the store either refuses the
\* commit (restrict: the exception leaves the function and nothing is stored) or
\* accepts it, after which no query sees the references (every query reaches a
\* Star through a join on its row, and its id is not reissued).
DeleteRefused(star_id, restrict) == Referenced(star_id) /\ restrict

MoviesWithoutDirector(star_id) ==
    [m \in DOMAIN movies |->
        IF movies[m].director_id = Some(star_id)
        THEN [movies[m] EXCEPT !.director_id = None]
        ELSE movies[m]]

ActorsWithoutStar(star_id) ==
    [r \in DOMAIN actors |-> IF r[2] = star_id THEN 0 ELSE actors[r]]

\* The rows of a deleted Movie leave the association with it.
ActorsWithoutMovie(movie_id) ==
    [r \in DOMAIN actors |-> IF r[1] = movie_id THEN 0 ELSE actors[r]]

\* Movie.actors is a list over an association with no uniqueness on the pair:
\* appending a Star adds a row.
ActorsAppended(movie_id, star_id) ==
    [actors EXCEPT ![<<movie_id, star_id>>] = @ + 1]

\* Assigning Movie.actors makes the Movie's rows those of the assigned Stars.
ActorsAssigned(movie_id, db_actors) ==
    [r \in DOMAIN actors |->
        IF r[1] = movie_id
        THEN (IF r[2] \in db_actors THEN 1 ELSE 0)
        ELSE actors[r]]

-----------------------------------------------------------------------------
(* MOVIES                                                                  *)

\* Variant: the id is computed from the rows present (highest id plus one).
create_movie_max_id(movie) ==
    /\ nextMovieId <= MaxMovies
    /\ LET id == IF DOMAIN movies = {} THEN 1
                 ELSE 1 + CHOOSE x \in DOMAIN movies : \A y \in DOMAIN movies : y <= x
           db_movie == [title |-> movie.title, year |-> movie.year,
                        duration |-> movie.duration, director_id |-> None]
       IN  /\ movies' = [m \in DOMAIN movies \cup {id} |->
                            IF m = id THEN db_movie ELSE movies[m]]
           /\ nextMovieId' = nextMovieId + 1
           /\ UNCHANGED <<stars, actors, nextStarId>>
           /\ Reply("create_movie", <<movie>>, Returned(Some(MovieEntity(id, db_movie))))

create_movie(movie) ==
    /\ nextMovieId <= MaxMovies
    /\ LET id == GeneratedMovieId
           db_movie == [title |-> movie.title, year |-> movie.year,
                        duration |-> movie.duration, director_id |-> None]
       IN  /\ movies' = [m \in DOMAIN movies \cup {id} |->
                            IF m = id THEN db_movie ELSE movies[m]]
           /\ nextMovieId' = id + 1
           /\ UNCHANGED <<stars, actors, nextStarId>>
           /\ Reply("create_movie", <<movie>>, Returned(Some(MovieEntity(id, db_movie))))

\* Variant: a row that is not found is inserted (upsert).
update_movie_upsert(movie) ==
    LET row == [title |-> movie.title, year |-> movie.year, duration |-> movie.duration,
                director_id |-> IF movie.id \in DOMAIN movies
                                THEN movies[movie.id].director_id ELSE None]
    IN  /\ movies' = [m \in DOMAIN movies \cup {movie.id} |->
                         IF m = movie.id THEN row ELSE movies[m]]
        /\ UNCHANGED <<stars, actors, nextMovieId, nextStarId>>
        /\ Reply("update_movie", <<movie>>, Returned(Some(MovieEntity(movie.id, row))))

update_movie(movie) ==
    IF movie.id \in DOMAIN movies
    THEN /\ movies' = [movies EXCEPT ![movie.id].title = movie.title,
                                     ![movie.id].year = movie.year,
                                     ![movie.id].duration = movie.duration]
         /\ UNCHANGED <<stars, actors, nextMovieId, nextStarId>>
         /\ Reply("update_movie", <<movie>>, Returned(Some(MovieEntity(movie.id, movies'[movie.id]))))
    ELSE Call("update_movie", <<movie>>, Returned(None))

delete_movie(movie_id) ==
    IF movie_id \in DOMAIN movies
    THEN /\ movies' = [m \in DOMAIN movies \ {movie_id} |-> movies[m]]
         /\ actors' = ActorsWithoutMovie(movie_id)
         /\ UNCHANGED <<stars, nextMovieId, nextStarId>>
         /\ Reply("delete_movie", <<movie_id>>, Returned(Some(MovieOf(movie_id))))
    ELSE Call("delete_movie", <<movie_id>>, Returned(None))

GetMovie(movie_id) == Call("get_movie", <<movie_id>>, Returned(get_movie(movie_id)))

GetMoviesByRangeYear(year_min, year_max) ==
    Call("get_movies_by_range_year", <<year_min, year_max>>,
         Returned(get_movies_by_range_year(year_min, year_max)))

-----------------------------------------------------------------------------
(* STARS                                                                   *)

\* Variant: the birthdate is not copied to the row.
create_star_no_birthdate(star) ==
    /\ nextStarId <= MaxStars
    /\ LET id == GeneratedStarId
           db_star == [name |-> star.name, birthdate |-> None]
       IN  /\ stars' = [s \in DOMAIN stars \cup {id} |->
                            IF s = id THEN db_star ELSE stars[s]]
           /\ nextStarId' = id + 1
           /\ UNCHANGED <<movies, actors, nextMovieId>>
           /\ Reply("create_star", <<star>>, Returned(Some(StarEntity(id, db_star))))

create_star(star) ==
    /\ nextStarId <= MaxStars
    /\ LET id == GeneratedStarId
           db_star == [name |-> star.name, birthdate |-> star.birthdate]
       IN  /\ stars' = [s \in DOMAIN stars \cup {id} |->
                            IF s = id THEN db_star ELSE stars[s]]
           /\ nextStarId' = id + 1
           /\ UNCHANGED <<movies, actors, nextMovieId>>
           /\ Reply("create_star", <<star>>, Returned(Some(StarEntity(id, db_star))))

update_star(star) ==
    IF star.id \in DOMAIN stars
    THEN /\ stars' = [stars EXCEPT ![star.id].name = star.name,
                                   ![star.id].birthdate = star.birthdate]
         /\ UNCHANGED <<movies, actors, nextMovieId, nextStarId>>
         /\ Reply("update_star", <<star>>, Returned(Some(StarEntity(star.id, stars'[star.id]))))
    ELSE Call("update_star", <<star>>, Returned(None))

delete_star(star_id, restrict) ==
    IF star_id \in DOMAIN stars
    THEN IF DeleteRefused(star_id, restrict)
         THEN Call("delete_star", <<star_id>>, Raised)
         ELSE /\ stars' = [s \in DOMAIN stars \ {star_id} |-> stars[s]]
              /\ movies' = MoviesWithoutDirector(star_id)
              /\ actors' = ActorsWithoutStar(star_id)
              /\ UNCHANGED <<nextMovieId, nextStarId>>
              /\ Reply("delete_star", <<star_id>>, Returned(Some(StarOf(star_id))))
    ELSE Call("delete_star", <<star_id>>, Returned(None))

GetStar(star_id) == Call("get_star", <<star_id>>, Returned(get_star(star_id)))

-----------------------------------------------------------------------------
(* DIRECTORS & ACTORS                                                      *)

GetDirectorByMovieId(movie_id) ==
    Call("get_director_by_movie_id", <<movie_id>>, get_director_by_movie_id(movie_id))

GetActorsByMovieEndname(endname) ==
    Call("get_actors_by_movie_endname", <<endname>>,
         Returned(Some(get_actors_by_movie_endname(endname))))

GetActorsByMovieId(movie_id) ==
    Call("get_actors_by_movie_id", <<movie_id>>,
         Returned(Some(get_actors_by_movie_id(movie_id))))

\* Variant: the Star is not looked up before the reference is stored.
update_movie_director_unchecked(movie_id, director_id) ==
    LET db_movie == get_movie(movie_id)
    IN  IF db_movie = None
        THEN Call("update_movie_director", <<movie_id, director_id>>, Returned(None))
        ELSE /\ movies' = [movies EXCEPT ![movie_id].director_id = Some(director_id)]
             /\ UNCHANGED <<stars, actors, nextMovieId, nextStarId>>
             /\ Reply("update_movie_director", <<movie_id, director_id>>,
                      Returned(Some(MovieEntity(movie_id, movies'[movie_id]))))

update_movie_director(movie_id, director_id) ==
    LET db_movie == get_movie(movie_id)
        db_star == get_star(director_id)
    IN  IF db_movie = None \/ db_star = None
        THEN Call("update_movie_director", <<movie_id, director_id>>, Returned(None))
        ELSE /\ movies' = [movies EXCEPT ![movie_id].director_id = Some(director_id)]
             /\ UNCHANGED <<stars, actors, nextMovieId, nextStarId>>
             /\ Reply("update_movie_director", <<movie_id, director_id>>,
                      Returned(Some(MovieEntity(movie_id, movies'[movie_id]))))

add_movie_actor(movie_id, star_id) ==
    LET db_movie == get_movie(movie_id)
        db_star == get_star(star_id)
    IN  IF db_movie = None \/ db_star = None
        THEN Call("add_movie_actor", <<movie_id, star_id>>, Returned(None))
        ELSE /\ CastRows(actors) < MaxCast
             /\ actors' = ActorsAppended(movie_id, star_id)
             /\ UNCHANGED <<movies, stars, nextMovieId, nextStarId>>
             /\ Reply("add_movie_actor", <<movie_id, star_id>>,
                      Returned(Some(MovieOf(movie_id))))

\* Variant: one row per listed id that resolves (the list is not collapsed by IN).
update_movie_actors_per_id(movie_id, star_ids) ==
    LET db_movie == get_movie(movie_id)
        replaced == [r \in DOMAIN actors |->
                        IF r[1] = movie_id
                        THEN (IF r[2] \in DOMAIN stars THEN Count(r[2], star_ids) ELSE 0)
                        ELSE actors[r]]
    IN  IF db_movie = None
        THEN Call("update_movie_actors", <<movie_id, star_ids>>, Returned(None))
        ELSE /\ CastRows(replaced) <= MaxCast
             /\ actors' = replaced
             /\ UNCHANGED <<movies, stars, nextMovieId, nextStarId>>
             /\ Reply("update_movie_actors", <<movie_id, star_ids>>,
                      Returned(Some(MovieOf(movie_id))))

\* Variant: the resolved Stars are added to the cast already stored (merge).
update_movie_actors_merge(movie_id, star_ids) ==
    LET db_movie == get_movie(movie_id)
        db_actors == { s \in DOMAIN stars : IdIn(s, star_ids) }
        replaced == [r \in DOMAIN actors |->
                        IF r[1] = movie_id /\ r[2] \in db_actors THEN 1 ELSE actors[r]]
    IN  IF db_movie = None
        THEN Call("update_movie_actors", <<movie_id, star_ids>>, Returned(None))
        ELSE /\ CastRows(replaced) <= MaxCast
             /\ actors' = replaced
             /\ UNCHANGED <<movies, stars, nextMovieId, nextStarId>>
             /\ Reply("update_movie_actors", <<movie_id, star_ids>>,
                      Returned(Some(MovieOf(movie_id))))

update_movie_actors(movie_id, star_ids) ==
    LET db_movie == get_movie(movie_id)
        db_actors == { s \in DOMAIN stars : IdIn(s, star_ids) }
        replaced == ActorsAssigned(movie_id, db_actors)
    IN  IF db_movie = None
        THEN Call("update_movie_actors", <<movie_id, star_ids>>, Returned(None))
        ELSE /\ CastRows(replaced) <= MaxCast
             /\ actors' = replaced
             /\ UNCHANGED <<movies, stars, nextMovieId, nextStarId>>
             /\ Reply("update_movie_actors", <<movie_id, star_ids>>,
                      Returned(Some(MovieOf(movie_id))))

-----------------------------------------------------------------------------
(* STATISTICS                                                              *)

GetMoviesCount == Call("get_movies_count", <<>>, Returned(Some(get_movies_count)))

GetMoviesStatsByYear ==
    Call("get_movies_stats_by_year", <<>>, Returned(Some(get_movies_stats_by_year)))

GetMoviesStatsByYearDict ==
    Call("get_movies_stats_by_year_dict", <<>>,
         Returned(Some(get_movies_stats_by_year_dict)))

GetStatsMovieByDirector(min_count) ==
    Call("get_stats_movie_by_director", <<min_count>>,
         Returned(Some(get_stats_movie_by_director(min_count))))

-----------------------------------------------------------------------------
(* One request at a time, each with inputs the routes accept.              *)

MovieUpdates ==
    { [id |-> i, title |-> p.title, year |-> p.year, duration |-> p.duration] :
        i \in MovieIds, p \in MovieInputs }

StarUpdates ==
    { [id |-> i, name |-> p.name, birthdate |-> p.birthdate] :
        i \in StarIds, p \in StarInputs }

Next ==
    \/ \E movie \in MovieInputs : create_movie(movie)
    \/ \E movie \in MovieUpdates : update_movie(movie)
    \/ \E movie_id \in MovieIds : delete_movie(movie_id)
    \/ \E movie_id \in MovieIds : GetMovie(movie_id)
    \/ \E year_min \in YearBounds, year_max \in YearBounds :
          GetMoviesByRangeYear(year_min, year_max)
    \/ \E star \in StarInputs : create_star(star)
    \/ \E star \in StarUpdates : update_star(star)
    \/ \E star_id \in StarIds, restrict \in BOOLEAN : delete_star(star_id, restrict)
    \/ \E star_id \in StarIds : GetStar(star_id)
    \/ \E movie_id \in MovieIds : GetDirectorByMovieId(movie_id)
    \/ \E endname \in EndNames : GetActorsByMovieEndname(endname)
    \/ \E movie_id \in MovieIds : GetActorsByMovieId(movie_id)
    \/ \E movie_id \in MovieIds, director_id \in StarIds :
          update_movie_director(movie_id, director_id)
    \/ \E movie_id \in MovieIds, star_id \in StarIds : add_movie_actor(movie_id, star_id)
    \/ \E movie_id \in MovieIds, star_ids \in StarIdLists :
          update_movie_actors(movie_id, star_ids)

Spec == Init /\ [][Next]_vars

-----------------------------------------------------------------------------
(* The statistics by year, on stores built by every committing function    *)
(* from payloads that share a year.                                        *)

PayloadUpdates ==
    { [id |-> i, title |-> p.title, year |-> p.year, duration |-> p.duration] :
        i \in MovieIds, p \in MoviePayloads }

StatsNext ==
    \/ \E movie \in MoviePayloads : create_movie(movie)
    \/ \E movie \in PayloadUpdates : update_movie(movie)
    \/ \E movie_id \in MovieIds : delete_movie(movie_id)
    \/ \E star \in StarInputs : create_star(star)
    \/ \E star_id \in StarIds, restrict \in BOOLEAN : delete_star(star_id, restrict)
    \/ \E movie_id \in MovieIds, director_id \in StarIds :
          update_movie_director(movie_id, director_id)
    \/ \E movie_id \in MovieIds, star_id \in StarIds : add_movie_actor(movie_id, star_id)
    \/ \E movie_id \in MovieIds, star_ids \in StarIdLists :
          update_movie_actors(movie_id, star_ids)
    \/ GetMoviesCount
    \/ GetMoviesStatsByYear
    \/ GetMoviesStatsByYearDict

StatsSpec == Init /\ [][StatsNext]_vars

-----------------------------------------------------------------------------
(* The statistics by director, on the stores that set_director and delete  *)
(* reach from a store of MaxDirected Movies and MaxStars Stars.            *)

MaxDirected == 3   \* Movies in the store of the statistics by director

DirectedIds == 1..MaxDirected

\* The store after MaxDirected create_movie calls and MaxStars create_star calls.
DirectorStatsInit ==
    \E movie \in MovieInputs, star \in StarInputs :
        /\ NoRequests
        /\ movies = [m \in DirectedIds |->
                        [title |-> movie.title, year |-> movie.year,
                         duration |-> movie.duration, director_id |-> None]]
        /\ stars = [s \in StarIds |-> [name |-> star.name, birthdate |-> star.birthdate]]
        /\ actors = [r \in DirectedIds \X StarIds |-> 0]
        /\ nextMovieId = MaxDirected + 1
        /\ nextStarId = MaxStars + 1
        /\ last = [op |-> "create_star", args |-> <<star>>,
                   ret |-> Some([id |-> MaxStars, name |-> star.name,
                                 birthdate |-> star.birthdate]),
                   raised |-> FALSE]

DirectorStatsNext ==
    \/ \E movie_id \in DirectedIds, director_id \in StarIds :
          update_movie_director(movie_id, director_id)
    \/ \E movie_id \in DirectedIds : delete_movie(movie_id)
    \/ \E star_id \in StarIds, restrict \in BOOLEAN : delete_star(star_id, restrict)
    \/ \E min_count \in MinCounts : GetStatsMovieByDirector(min_count)

DirectorStatsSpec == DirectorStatsInit /\ [][DirectorStatsNext]_vars

-----------------------------------------------------------------------------
(* CONCURRENT REQUESTS                                                     *)
(*                                                                         *)
(* The routes are plain functions, which the framework runs in threads, so *)
(* requests overlap.  Each request gets its own session from get_db; a     *)
(* crud function that commits is two steps here: its queries (the session  *)
(* loads the rows into objects of its own) and, later, its assignments and *)
(* db.commit(), which flushes what changed and ends the transaction.       *)

\* get_db up to its yield: SessionLocal() makes a session for this request.
get_db_open(r, op, args) ==
    /\ requests[r].pc = "idle"
    /\ sessions' = Append(sessions, [owner |-> r, open |-> TRUE, closes |-> 0])
    /\ requests' = [requests EXCEPT ![r] =
                       [Idle EXCEPT !.pc = "open", !.op = op, !.args = args,
                                    !.db = Len(sessions) + 1]]
    /\ UNCHANGED <<store, last>>

\* Variant: db.close() follows the yield with no try/finally, so it is skipped
\* when the route raises.
get_db_close_no_finally(r) ==
    /\ requests[r].pc = "exit"
    /\ requests' = [requests EXCEPT ![r].pc = "closed"]
    /\ sessions' = IF requests[r].exc = "none"
                   THEN [sessions EXCEPT ![requests[r].db].open = FALSE,
                                         ![requests[r].db].closes = @ + 1]
                   ELSE sessions
    /\ UNCHANGED <<store, last>>

\* get_db after its yield: the finally clause closes the session, whether the
\* route returned or raised.
get_db_close(r) ==
    /\ requests[r].pc = "exit"
    /\ requests' = [requests EXCEPT ![r].pc = "closed"]
    /\ sessions' = [sessions EXCEPT ![requests[r].db].open = FALSE,
                                    ![requests[r].db].closes = @ + 1]
    /\ UNCHANGED <<store, last>>

\* The session has loaded what the queries of the crud function found.
Load(r, db_movie, db_star) ==
    requests' = [requests EXCEPT ![r].pc = "loaded",
                                 ![r].loaded = [movie |-> db_movie, star |-> db_star]]

\* The route is left: with a value, or with an exception (of the crud function,
\* or the HTTPException of the route when the crud function returned None).
Exit(r, ret, exc) ==
    requests' = [requests EXCEPT ![r].pc = "exit", ![r].ret = ret, ![r].exc = exc]

\* The route is left after db.commit() has returned; order numbers the commits.
Committed(r, ret) ==
    requests' = [requests EXCEPT
                    ![r].pc = "exit", ![r].ret = ret,
                    ![r].order = 1 + Cardinality({ q \in Requests : requests[q].order > 0 })]

\* The row of a Movie / Star as a query finds it: .first() gives a row or None.
MovieRow(movie_id) == IF movie_id \in DOMAIN movies THEN Some(movies[movie_id]) ELSE None
StarRow(star_id) == IF star_id \in DOMAIN stars THEN Some(stars[star_id]) ELSE None

\* The store holds Film.director_id -> Person.id and Cast(film_id, person_id) as
\* references: a commit that would store a reference to an id that has no row is
\* a constraint violation, which fails the commit and stores nothing.
StarReferenceNotChecked(star_id) == FALSE    \* variant: the store checks no reference
StarReferenceRefused(star_id) == star_id \notin DOMAIN stars
MovieReferenceRefused(movie_id) == movie_id \notin DOMAIN movies

\* The attributes whose assigned value differs from the loaded one: the flush
\* writes these columns and no others.
Dirty(db_movie, movie) ==
    { f \in {"title", "year", "duration"} : movie[f] # db_movie[f] }

update_movie_query(r) ==
    /\ requests[r].pc = "open"
    /\ requests[r].op = "update_movie"
    /\ LET movie == requests[r].args[1]
           db_movie == MovieRow(movie.id)
       IN  IF db_movie = None
           THEN Exit(r, None, "HTTPException")
           ELSE Load(r, db_movie, None)
    /\ UNCHANGED <<store, last, sessions>>

update_movie_commit(r) ==
    /\ requests[r].pc = "loaded"
    /\ requests[r].op = "update_movie"
    /\ LET movie == requests[r].args[1]
           db_movie == requests[r].loaded.movie[1]
           dirty == Dirty(db_movie, movie)
       IN  IF dirty # {} /\ movie.id \notin DOMAIN movies
           THEN /\ Exit(r, None, "StaleDataError")     \* UPDATE matched no row
                /\ UNCHANGED store
           ELSE /\ movie.id \in DOMAIN movies
                /\ movies' = [movies EXCEPT ![movie.id] =
                                 [f \in DOMAIN movies[movie.id] |->
                                     IF f \in dirty THEN movie[f] ELSE movies[movie.id][f]]]
                /\ UNCHANGED <<stars, actors, nextMovieId, nextStarId>>
                /\ Committed(r, Some(MovieEntity(movie.id, movies'[movie.id])))
    /\ UNCHANGED <<last, sessions>>

update_movie_director_query(r) ==
    /\ requests[r].pc = "open"
    /\ requests[r].op = "update_movie_director"
    /\ LET db_movie == MovieRow(requests[r].args[1])
           db_star == StarRow(requests[r].args[2])
       IN  IF db_movie = None \/ db_star = None
           THEN Exit(r, None, "HTTPException")
           ELSE Load(r, db_movie, db_star)
    /\ UNCHANGED <<store, last, sessions>>

update_movie_director_commit(r) ==
    /\ requests[r].pc = "loaded"
    /\ requests[r].op = "update_movie_director"
    /\ LET movie_id == requests[r].args[1]
           director_id == requests[r].args[2]
           db_movie == requests[r].loaded.movie[1]
       IN  IF db_movie.director_id = Some(director_id)
           THEN /\ movie_id \in DOMAIN movies          \* nothing changed, nothing written
                /\ Committed(r, Some(MovieOf(movie_id)))
                /\ UNCHANGED store
           ELSE IF movie_id \notin DOMAIN movies
           THEN /\ Exit(r, None, "StaleDataError")
                /\ UNCHANGED store
           ELSE IF StarReferenceRefused(director_id)
           THEN /\ Exit(r, None, "IntegrityError")
                /\ UNCHANGED store
           ELSE /\ movies' = [movies EXCEPT ![movie_id].director_id = Some(director_id)]
                /\ UNCHANGED <<stars, actors, nextMovieId, nextStarId>>
                /\ Committed(r, Some(MovieEntity(movie_id, movies'[movie_id])))
    /\ UNCHANGED <<last, sessions>>

add_movie_actor_query(r) ==
    /\ requests[r].pc = "open"
    /\ requests[r].op = "add_movie_actor"
    /\ LET db_movie == MovieRow(requests[r].args[1])
           db_star == StarRow(requests[r].args[2])
       IN  IF db_movie = None \/ db_star = None
           THEN Exit(r, None, "HTTPException")
           ELSE Load(r, db_movie, db_star)
    /\ UNCHANGED <<store, last, sessions>>

add_movie_actor_commit(r) ==
    /\ requests[r].pc = "loaded"
    /\ requests[r].op = "add_movie_actor"
    /\ LET movie_id == requests[r].args[1]
           star_id == requests[r].args[2]
       IN  IF MovieReferenceRefused(movie_id) \/ StarReferenceRefused(star_id)
           THEN /\ Exit(r, None, "IntegrityError")
                /\ UNCHANGED store
           ELSE /\ actors' = ActorsAppended(movie_id, star_id)
                /\ UNCHANGED <<movies, stars, nextMovieId, nextStarId>>
                /\ Committed(r, Some(MovieOf(movie_id)))
    /\ UNCHANGED <<last, sessions>>

delete_star_query(r) ==
    /\ requests[r].pc = "open"
    /\ requests[r].op = "delete_star"
    /\ LET db_star == StarRow(requests[r].args[1])
       IN  IF db_star = None
           THEN Exit(r, None, "HTTPException")
           ELSE Load(r, None, db_star)
    /\ UNCHANGED <<store, last, sessions>>

delete_star_commit(r, restrict) ==
    /\ requests[r].pc = "loaded"
    /\ requests[r].op = "delete_star"
    /\ LET star_id == requests[r].args[1]
           db_star == StarEntity(star_id, requests[r].loaded.star[1])
       IN  IF star_id \notin DOMAIN stars
           THEN /\ Committed(r, Some(db_star))         \* DELETE matched no row
                /\ UNCHANGED store
           ELSE IF DeleteRefused(star_id, restrict)
           THEN /\ Exit(r, None, "IntegrityError")
                /\ UNCHANGED store
           ELSE /\ stars' = [s \in DOMAIN stars \ {star_id} |-> stars[s]]
                /\ movies' = MoviesWithoutDirector(star_id)
                /\ actors' = ActorsWithoutStar(star_id)
                /\ UNCHANGED <<nextMovieId, nextStarId>>
                /\ Committed(r, Some(db_star))
    /\ UNCHANGED <<last, sessions>>

\* The route of the director lookup: the crud function reads and returns, or
\* raises out of the route.
get_director_by_movie_id_route(r) ==
    /\ requests[r].pc = "open"
    /\ requests[r].op = "get_director_by_movie_id"
    /\ LET director == get_director_by_movie_id(requests[r].args[1])
       IN  IF director.raised
           THEN Exit(r, None, "AttributeError")
           ELSE IF director.ret = None
           THEN Exit(r, None, "HTTPException")
           ELSE Exit(r, director.ret, "none")
    /\ UNCHANGED <<store, last, sessions>>

\* The requests that arrive: a route and its arguments.
RequestInputs ==
    { <<"update_movie", <<movie>>>> : movie \in PayloadUpdates }
        \cup { <<"update_movie_director", <<m, s>>>> : m \in MovieIds, s \in StarIds }
        \cup { <<"add_movie_actor", <<m, s>>>> : m \in MovieIds, s \in StarIds }
        \cup { <<"delete_star", <<s>>>> : s \in StarIds }
        \cup { <<"get_director_by_movie_id", <<m>>>> : m \in MovieIds }

\* The store after create_movie and create_star have each been called once.
RequestsInit ==
    \E movie \in MovieInputs, star \in StarInputs :
        /\ NoRequests
        /\ movies = [m \in {1} |->
                        [title |-> movie.title, year |-> movie.year,
                         duration |-> movie.duration, director_id |-> None]]
        /\ stars = [s \in {1} |-> [name |-> star.name, birthdate |-> star.birthdate]]
        /\ actors = [p \in MovieIds \X StarIds |-> 0]
        /\ nextMovieId = 2
        /\ nextStarId = 2
        /\ last = [op |-> "create_star", args |-> <<star>>,
                   ret |-> Some([id |-> 1, name |-> star.name,
                                 birthdate |-> star.birthdate]),
                   raised |-> FALSE]

\* What the thread of request r does once the request has its session.
Serve(r) ==
    \/ update_movie_query(r)
    \/ update_movie_commit(r)
    \/ update_movie_director_query(r)
    \/ update_movie_director_commit(r)
    \/ add_movie_actor_query(r)
    \/ add_movie_actor_commit(r)
    \/ delete_star_query(r)
    \/ \E restrict \in BOOLEAN : delete_star_commit(r, restrict)
    \/ get_director_by_movie_id_route(r)
    \/ get_db_close(r)

RequestsNext ==
    \/ \E r \in Requests, input \in RequestInputs : get_db_open(r, input[1], input[2])
    \/ \E r \in Requests : Serve(r)

RequestsSpec == RequestsInit /\ [][RequestsNext]_vars

\* Every thread that serves a request keeps running until its route is left and
\* get_db has resumed after its yield.
FairRequestsSpec == RequestsSpec /\ \A r \in Requests : WF_vars(Serve(r))

-----------------------------------------------------------------------------
(* Properties of the director lookup and of the cast operations.           *)

\* The arguments of the last call.
Arg(i) == last.args[i]

\* C1: get_director_by_movie_id returns None, and does not raise, when movie_id
\* names no Movie and when the Movie has no director.
C1_GetDirectorAbsentNotError ==
    last.op = "get_director_by_movie_id" =>
        ( (Arg(1) \notin DOMAIN movies \/ movies[Arg(1)].director_id = None)
            => (~last.raised /\ last.ret = None) )

\* The case of C2: update_movie_actors has run on an existing Movie with a list
\* that names an existing Star more than once.
C2_Witness ==
    /\ last.op = "update_movie_actors"
    /\ last.ret # None
    /\ \E s \in DOMAIN stars : Count(s, Arg(2)) > 1

\* C2 as stated: after update_movie_actors on an existing Movie, a Star named
\* more than once in star_ids is listed by get_actors_by_movie_id once per
\* occurrence in the list.
C2_ReplaceCastOncePerOccurrence ==
    (last.op = "update_movie_actors" /\ last.ret # None) =>
        \A s \in DOMAIN stars :
            Count(s, Arg(2)) > 1 =>
                Count(s, get_actors_by_movie_id(Arg(1))) = Count(s, Arg(2))

\* C2 amended: after update_movie_actors on an existing Movie, a Star named
\* more than once in star_ids has exactly one row in the Movie's cast and is
\* listed exactly once by get_actors_by_movie_id.
C2_ReplaceCastListsOnce ==
    (last.op = "update_movie_actors" /\ last.ret # None) =>
        \A s \in DOMAIN stars :
            Count(s, Arg(2)) > 1 =>
                /\ actors[<<Arg(1), s>>] = 1
                /\ Count(s, get_actors_by_movie_id(Arg(1))) = 1

\* After update_movie_actors on an existing Movie, get_actors_by_movie_id lists
\* exactly the Stars that star_ids resolves to, each once.
CastIsResolvedIds ==
    (last.op = "update_movie_actors" /\ last.ret # None) =>
        LET resolved == Range(Arg(2)) \cap DOMAIN stars
        IN  /\ Range(get_actors_by_movie_id(Arg(1))) = resolved
            /\ Len(get_actors_by_movie_id(Arg(1))) = Cardinality(resolved)

\* What one update_movie_actors call returns, and what it leaves alone.
ReplaceCastStep ==
    \A movie_id \in MovieIds, star_ids \in StarIdLists :
        (last'.op = "update_movie_actors" /\ last'.args = <<movie_id, star_ids>>) =>
            IF movie_id \notin DOMAIN movies
            THEN /\ last'.ret = None
                 /\ ~last'.raised
                 /\ UNCHANGED store
            ELSE /\ ~last'.raised
                 /\ last'.ret = Some(MovieOf(movie_id))
                 /\ \A r \in DOMAIN actors :
                       /\ r[1] # movie_id => actors'[r] = actors[r]
                       /\ (r[1] = movie_id /\ r[2] \notin Range(star_ids))
                             => actors'[r] = 0
                 /\ UNCHANGED <<movies, stars, nextMovieId, nextStarId>>

\* C3: update_movie_actors on a missing Movie returns None and leaves the store
\* unchanged; on an existing Movie it does not raise, returns the Movie, and the
\* Movie's cast becomes exactly the Stars that star_ids resolves to (ids naming no
\* Star are dropped, no other member of the prior cast remains, an empty or
\* wholly unresolved list gives an empty cast); nothing else changes.
C3_ReplaceCast == []CastIsResolvedIds /\ [][ReplaceCastStep]_vars

\* The case of C3: a replace on an existing Movie whose list names a Star that
\* exists and an id that names none, leaving that one Star as the cast.
C3_Witness ==
    /\ last.op = "update_movie_actors"
    /\ last.ret # None
    /\ Range(Arg(2)) \cap DOMAIN stars # {}
    /\ Range(Arg(2)) \ DOMAIN stars # {}
    /\ Len(get_actors_by_movie_id(Arg(1))) = 1

\* What one add_movie_actor call returns and does to the store.
AddActorStep ==
    \A movie_id \in MovieIds, star_id \in StarIds :
        (last'.op = "add_movie_actor" /\ last'.args = <<movie_id, star_id>>) =>
            IF movie_id \notin DOMAIN movies \/ star_id \notin DOMAIN stars
            THEN /\ last'.ret = None
                 /\ ~last'.raised
                 /\ UNCHANGED store
            ELSE /\ ~last'.raised
                 /\ last'.ret = Some(MovieOf(movie_id))
                 /\ actors' = [actors EXCEPT ![<<movie_id, star_id>>] = @ + 1]
                 /\ UNCHANGED <<movies, stars, nextMovieId, nextStarId>>

\* After a successful add_movie_actor the Star is listed by
\* get_actors_by_movie_id once per row the pair has (once per add).
AddedListedPerRow ==
    (last.op = "add_movie_actor" /\ last.ret # None) =>
        Count(Arg(2), get_actors_by_movie_id(Arg(1))) = actors[<<Arg(1), Arg(2)>>]

\* After a successful add_movie_actor the Star is listed exactly once.
AddedListedOnce ==
    (last.op = "add_movie_actor" /\ last.ret # None) =>
        Count(Arg(2), get_actors_by_movie_id(Arg(1))) = 1

\* C4 as stated: add_movie_actor returns None and changes nothing when either id
\* does not resolve; otherwise it appends a row, and the Star is listed by
\* get_actors_by_movie_id as many times as it has been added.
C4_AddCastListedPerAdd == []AddedListedPerRow /\ [][AddActorStep]_vars

\* C4 amended: add_movie_actor returns None and changes nothing when either id
\* does not resolve; otherwise it returns the Movie and appends a row, and the
\* Star is listed by get_actors_by_movie_id exactly once, however many rows the
\* pair has.
C4_AddCastListedOnce == []AddedListedOnce /\ [][AddActorStep]_vars

\* The case of C4: the same (Movie, Star) pair has been added twice.
C4_Witness ==
    /\ last.op = "add_movie_actor"
    /\ last.ret # None
    /\ actors[<<Arg(1), Arg(2)>>] = 2

\* What one update_movie_director call returns and does to the store.
SetDirectorStep ==
    \A movie_id \in MovieIds, director_id \in StarIds :
        (last'.op = "update_movie_director"
           /\ last'.args = <<movie_id, director_id>>) =>
            IF movie_id \notin DOMAIN movies \/ director_id \notin DOMAIN stars
            THEN /\ last'.ret = None
                 /\ ~last'.raised
                 /\ UNCHANGED store
            ELSE /\ ~last'.raised
                 /\ movies' = [movies EXCEPT ![movie_id].director_id = Some(director_id)]
                 /\ last'.ret = Some(MovieEntity(movie_id, movies'[movie_id]))
                 /\ UNCHANGED <<stars, actors, nextMovieId, nextStarId>>

\* Right after a successful update_movie_director, get_director_by_movie_id on
\* the Movie returns the Star that was given.
DirectorIsTheOneSet ==
    (last.op = "update_movie_director" /\ last.ret # None) =>
        /\ Arg(2) \in DOMAIN stars
        /\ get_director_by_movie_id(Arg(1)) = Returned(Some(StarOf(Arg(2))))

\* C5: update_movie_director returns None and leaves every director (and the
\* rest of the store) unchanged when the Movie or the Star does not resolve;
\* otherwise the Movie's director becomes that Star, its other fields, the other
\* Movies, the Stars and the cast rows are unchanged, and get_director_by_movie_id
\* on the Movie then returns that Star.
C5_SetDirector == []DirectorIsTheOneSet /\ [][SetDirectorStep]_vars

\* The case of C5: a director has been set on a Movie that has a cast, with
\* another Movie in the store.
C5_Witness ==
    /\ last.op = "update_movie_director"
    /\ last.ret # None
    /\ Cardinality(DOMAIN movies) > 1
    /\ get_actors_by_movie_id(Arg(1)) # <<>>
    /\ get_director_by_movie_id(Arg(1)) = Returned(Some(StarOf(Arg(2))))

-----------------------------------------------------------------------------
(* Properties of the title lookup, of update, delete, create and the range.  *)

\* s ends with suffix.
EndsWith(s, suffix) ==
    /\ Len(suffix) <= Len(s)
    /\ SubSeq(s, Len(s) - Len(suffix) + 1, Len(s)) = suffix

\* C6: get_actors_by_movie_endname returns the cast of exactly the Movies whose
\* title ends with the given value; the cast of a Movie whose title only contains
\* the value before its end is not returned.
C6_CastByTitleSuffix ==
    last.op = "get_actors_by_movie_endname" =>
        Range(last.ret[1]) =
            { s \in DOMAIN stars :
                \E m \in DOMAIN movies :
                    EndsWith(movies[m].title, Arg(1)) /\ actors[<<m, s>>] > 0 }

\* C7: update_movie / update_star with an id that matches no row returns None,
\* does not raise, and leaves Movies, Stars, director references and cast rows
\* as they were.
C7_UpdateMissingIsNoOp ==
    [][ /\ (last'.op = "update_movie" /\ last'.args[1].id \notin DOMAIN movies)
            => (last'.ret = None /\ ~last'.raised /\ UNCHANGED store)
        /\ (last'.op = "update_star" /\ last'.args[1].id \notin DOMAIN stars)
            => (last'.ret = None /\ ~last'.raised /\ UNCHANGED store)
      ]_vars

\* The case of C7: an update_movie whose id matched no row, on a store that
\* holds a Movie with a director and a cast.
C7_Witness ==
    /\ last.op = "update_movie"
    /\ last.ret = None
    /\ Arg(1).id \notin DOMAIN movies
    /\ \E m \in DOMAIN movies :
          movies[m].director_id # None /\ get_actors_by_movie_id(m) # <<>>

\* The id was generated for a row that has since been deleted.
DeletedMovie(id) == id < nextMovieId /\ id \notin DOMAIN movies
DeletedStar(id) == id < nextStarId /\ id \notin DOMAIN stars

CreateStep ==
    /\ \A movie \in MovieInputs :
          (last'.op = "create_movie" /\ last'.args = <<movie>>) =>
              /\ ~last'.raised
              /\ last'.ret # None
              /\ LET id == last'.ret[1].id
                 IN  /\ id \notin DOMAIN movies
                     /\ DOMAIN movies' = DOMAIN movies \cup {id}
                     /\ \A m \in DOMAIN movies : movies'[m] = movies[m]
              /\ UNCHANGED <<stars, actors>>
    /\ \A star \in StarInputs :
          (last'.op = "create_star" /\ last'.args = <<star>>) =>
              /\ ~last'.raised
              /\ last'.ret # None
              /\ LET id == last'.ret[1].id
                 IN  /\ id \notin DOMAIN stars
                     /\ DOMAIN stars' = DOMAIN stars \cup {id}
                     /\ \A x \in DOMAIN stars : stars'[x] = stars[x]
              /\ UNCHANGED <<movies, actors>>

\* Right after a create, a get by the returned id yields the fields that were
\* given; a new Movie has no director and an empty cast.
CreatedReadsBack ==
    /\ last.op = "create_movie" =>
          LET id == last.ret[1].id
          IN  /\ get_movie(id) =
                    Some([id |-> id, title |-> Arg(1).title, year |-> Arg(1).year,
                          duration |-> Arg(1).duration, director_id |-> None])
              /\ get_movie(id) = last.ret
              /\ get_actors_by_movie_id(id) = <<>>
    /\ last.op = "create_star" =>
          LET id == last.ret[1].id
          IN  /\ get_star(id) =
                    Some([id |-> id, name |-> Arg(1).name, birthdate |-> Arg(1).birthdate])
              /\ get_star(id) = last.ret

\* C9: create_movie / create_star assigns an id no existing row of that kind has,
\* leaves all existing rows, director references and cast rows unchanged, and a
\* get by the returned id yields exactly the given scalar fields (for a Movie
\* with no director and an empty cast).
C9_CreateThenRead == []CreatedReadsBack /\ [][CreateStep]_vars

\* The case of C9: a Movie with a duration has been created beside an existing
\* Movie that has a director and a cast.
C9_Witness ==
    /\ last.op = "create_movie"
    /\ Arg(1).duration # None
    /\ \E m \in DOMAIN movies :
          /\ m # last.ret[1].id
          /\ movies[m].director_id # None
          /\ get_actors_by_movie_id(m) # <<>>

\* C10: get_movies_by_range_year with both bounds absent returns None, whatever
\* the store holds; with at least one bound it returns a sequence (possibly
\* empty) of the Movies within the bounds, never None; it does not raise.
C10_RangeBothAbsentIsNone ==
    last.op = "get_movies_by_range_year" =>
        /\ ~last.raised
        /\ IF Arg(1) = None /\ Arg(2) = None
           THEN last.ret = None
           ELSE /\ last.ret # None
                /\ Range(last.ret[1]) =
                       { m \in DOMAIN movies :
                           /\ (Arg(1) # None => movies[m].year >= Arg(1)[1])
                           /\ (Arg(2) # None => movies[m].year <= Arg(2)[1]) }

\* The case of C10: the range query was made with both bounds absent on a store
\* that holds Movies.
C10_Witness ==
    /\ last.op = "get_movies_by_range_year"
    /\ Arg(1) = None /\ Arg(2) = None
    /\ DOMAIN movies # {}
    /\ last.ret = None

-----------------------------------------------------------------------------
(* Properties of the statistics.                                           *)

RECURSIVE SumCounts(_)
SumCounts(rows) == IF rows = <<>> THEN 0 ELSE Head(rows)[2] + SumCounts(Tail(rows))

\* C11: in every reachable store the counts of get_movies_stats_by_year summed
\* over the years equal get_movies_count, also when Films have no duration;
\* there is exactly one entry per distinct year of a Film, in ascending year
\* order; and the two calls return these values.
C11_YearCountsSumToCount ==
    LET rows == get_movies_stats_by_year
        years == { movies[m].year : m \in DOMAIN movies }
    IN  /\ SumCounts(rows) = get_movies_count
        /\ get_movies_count = Cardinality(DOMAIN movies)
        /\ { rows[i][1] : i \in 1..Len(rows) } = years
        /\ Len(rows) = Cardinality(years)
        /\ \A i \in 1..(Len(rows) - 1) : rows[i][1] < rows[i + 1][1]
        /\ (last.op = "get_movies_stats_by_year" => last.ret = Some(rows))
        /\ (last.op = "get_movies_count" => last.ret = Some(Cardinality(DOMAIN movies)))

\* The case of C11: the statistics by year were asked on a store of Films of two
\* years, one of them without a duration.
C11_Witness ==
    /\ last.op = "get_movies_stats_by_year"
    /\ Len(last.ret[1]) = 2
    /\ \E m \in DOMAIN movies : movies[m].duration = None
    /\ SumCounts(last.ret[1]) = 2

\* The larger of two integers.
Larger(a, b) == IF a >= b THEN a ELSE b

\* Number of Movies whose director reference is the Star.
Directs(star_id) ==
    Cardinality({ m \in DOMAIN movies : movies[m].director_id = Some(star_id) })

\* C12: get_stats_movie_by_director(min_count) returns exactly the Stars that
\* direct at least max(1, min_count) Movies, each once and paired with the number
\* of Movies it directs, in non-increasing order of that number.
C12_StatsByDirector ==
    last.op = "get_stats_movie_by_director" =>
        LET rows == last.ret[1]
            kept == { s \in DOMAIN stars : Directs(s) >= Larger(1, Arg(1)) }
        IN  /\ ~last.raised
            /\ { rows[i][1].id : i \in 1..Len(rows) } = kept
            /\ Len(rows) = Cardinality(kept)
            /\ \A i \in 1..Len(rows) :
                  /\ rows[i][1] = StarOf(rows[i][1].id)
                  /\ rows[i][2] = Directs(rows[i][1].id)
            /\ \A i \in 1..(Len(rows) - 1) : rows[i][2] >= rows[i + 1][2]

\* The case of C12: with min_count = 2, one Star directs two Movies and is
\* returned, another directs exactly one and is left out.
C12_Witness ==
    /\ last.op = "get_stats_movie_by_director"
    /\ Arg(1) = 2
    /\ Len(last.ret[1]) = 1
    /\ \E s \in DOMAIN stars : Directs(s) = 1
    /\ \E s \in DOMAIN stars : Directs(s) = 2

\* The case of C12 with min_count = 0: two Stars are returned in decreasing order
\* of their counts.
C12_WitnessOrder ==
    /\ last.op = "get_stats_movie_by_director"
    /\ Arg(1) = 0
    /\ Len(last.ret[1]) = 2
    /\ last.ret[1][1][2] > last.ret[1][2][2]

\* v is the least (greatest) of the non-null durations of the Films of the year,
\* or absent when the year has none.
IsMinOfYear(v, year) ==
    LET ds == { movies[m].duration[1] :
                  m \in { x \in DOMAIN movies :
                            movies[x].year = year /\ movies[x].duration # None } }
    IN  IF ds = {} THEN v = None
        ELSE v # None /\ v[1] \in ds /\ \A d \in ds : v[1] <= d

IsMaxOfYear(v, year) ==
    LET ds == { movies[m].duration[1] :
                  m \in { x \in DOMAIN movies :
                            movies[x].year = year /\ movies[x].duration # None } }
    IN  IF ds = {} THEN v = None
        ELSE v # None /\ v[1] \in ds /\ \A d \in ds : v[1] >= d

\* C16: get_movies_stats_by_year_dict has one entry per year of a Film, whose
\* min_duration is the least and max_duration the greatest of the non-null
\* durations of the year (so min_duration <= max_duration when both are present),
\* and which agrees with the entry of get_movies_stats_by_year on year, count,
\* min and max.
C16_DictMinMax ==
    last.op = "get_movies_stats_by_year_dict" =>
        LET entries == last.ret[1]
            rows == get_movies_stats_by_year
        IN  /\ Len(entries) = Len(rows)
            /\ \A i \in 1..Len(entries) :
                  /\ IsMinOfYear(entries[i].min_duration, entries[i].year)
                  /\ IsMaxOfYear(entries[i].max_duration, entries[i].year)
                  /\ (entries[i].min_duration # None /\ entries[i].max_duration # None)
                        => entries[i].min_duration[1] <= entries[i].max_duration[1]
                  /\ entries[i].year = rows[i][1]
                  /\ entries[i].movie_count = rows[i][2]
                  /\ entries[i].min_duration = rows[i][3]
                  /\ entries[i].max_duration = rows[i][4]

-----------------------------------------------------------------------------
(* Properties of concurrent requests.                                      *)

\* The session of a request that has one.
SessionOf(r) == sessions[requests[r].db]

\* Each session belongs to the one request it was made for, is open while that
\* request is in its route, and has been closed exactly once when the request is
\* over; no session is closed twice.
SessionPerRequest ==
    /\ \A h \in 1..Len(sessions) :
          /\ sessions[h].closes <= 1
          /\ sessions[h].open <=> sessions[h].closes = 0
          /\ requests[sessions[h].owner].db = h
    /\ \A r \in Requests :
          /\ requests[r].pc = "idle" => requests[r].db = 0
          /\ requests[r].pc \in {"open", "loaded", "exit"} =>
                /\ requests[r].db \in 1..Len(sessions)
                /\ SessionOf(r).owner = r
                /\ SessionOf(r).open
          /\ requests[r].pc = "closed" =>
                /\ requests[r].db \in 1..Len(sessions)
                /\ SessionOf(r).owner = r
                /\ ~SessionOf(r).open
                /\ SessionOf(r).closes = 1

\* A step of a crud function (a query or a commit) is made by a request on its
\* own session, while that session is open.
CrudOnOwnOpenSession ==
    \A r \in Requests :
        (requests[r].pc \in {"open", "loaded"} /\ requests'[r] # requests[r]) =>
            /\ SessionOf(r).owner = r
            /\ SessionOf(r).open

\* C13: every session that get_db makes for a request is eventually closed, and
\* closed exactly once, whether the route returns or raises (the director
\* dereference on a missing Movie, a failed commit, the route's 404); no crud
\* step runs on a session that is closed or that belongs to another request.
C13_SessionReleasedOnce ==
    /\ []SessionPerRequest
    /\ [][CrudOnOwnOpenSession]_vars
    /\ \A r \in Requests : (requests[r].pc = "open") ~> (requests[r].pc = "closed")

\* The case of C13: a request whose director lookup raised AttributeError is over
\* with its session closed once, beside a request that returned normally.
C13_Witness ==
    \E r \in Requests, q \in Requests :
        /\ requests[r].pc = "closed"
        /\ requests[r].exc = "AttributeError"
        /\ SessionOf(r).closes = 1
        /\ requests[q].pc = "closed"
        /\ requests[q].exc = "none"
        /\ requests[q].db # requests[r].db

\* C14: when two update_movie requests on the same Movie id have both committed,
\* the stored title, year and duration of the Movie are the payload of the one
\* that committed last.
C14_LastWriterWins ==
    \A r1 \in Requests, r2 \in Requests :
        ( /\ requests[r1].op = "update_movie"
          /\ requests[r2].op = "update_movie"
          /\ requests[r1].order > 0
          /\ requests[r2].order > requests[r1].order
          /\ requests[r1].args[1].id = requests[r2].args[1].id )
        => LET movie == requests[r2].args[1]
           IN  /\ movie.id \in DOMAIN movies
               /\ movies[movie.id].title = movie.title
               /\ movies[movie.id].year = movie.year
               /\ movies[movie.id].duration = movie.duration

\* A step that stores a director reference or a cast row to a Star stores it to
\* a Star that has a row when the step is taken.
LinkStoredToExistingStar ==
    \A m \in MovieIds, s \in StarIds :
        /\ ( /\ m \in DOMAIN movies'
             /\ movies'[m].director_id = Some(s)
             /\ ~(m \in DOMAIN movies /\ movies[m].director_id = Some(s)) )
              => (s \in DOMAIN stars /\ s \in DOMAIN stars')
        /\ actors'[<<m, s>>] > actors[<<m, s>>]
              => (s \in DOMAIN stars /\ s \in DOMAIN stars')

\* The commit of a request that read the Star and finds it deleted stores
\* nothing.
LateLinkStoresNothing ==
    \A r \in Requests :
        ( /\ requests[r].pc = "loaded"
          /\ requests[r].op \in {"update_movie_director", "add_movie_actor"}
          /\ requests[r].args[2] \notin DOMAIN stars
          /\ requests'[r].pc = "exit" )
        => UNCHANGED store

====
